---- MODULE Spec2Model ----
(***************************************************************************)
(* Authentication-mode resolution and OAuth/OIDC client configuration of   *)
(* the web-app (getActiveAuthMode / getOAuthConfig).                       *)
(*                                                                         *)
(* The environment configuration and the browser origin are fixed when the *)
(* page loads; the two exported functions may then be called repeatedly.   *)
(* The state records the value each function returned last.                *)
(*                                                                         *)
(* Two further parts of the repository are modelled, each under its own    *)
(* specification: the login page (LoginComponent with the theme toggle,    *)
(* SpecLogin) and the licence-header script (scripts/add-file-headers.js,  *)
(* SpecHeaders).  A specification holds the variables of the other parts   *)
(* at their idle values.                                                   *)
(***************************************************************************)
EXTENDS Integers, Sequences, FiniteSets

VARIABLES
    environment,   \* the imported `environment` object (read-only input)
    origin,        \* window.location.origin
    authMode,      \* value returned by the last getActiveAuthMode() call
    authConfig,    \* value returned by the last getOAuthConfig() call
    modeCalls,     \* number of getActiveAuthMode() calls made so far
    configCalls,   \* number of getOAuthConfig() calls made so far
    \* login page
    themeDarkSetting,   \* settingsService.themeDarkEnabled (persisted setting)
    tenantIdentifier,   \* settingsService.tenantIdentifier
    themingDarkMode,    \* value last passed to themingService.setDarkMode
    serviceCalls,       \* service calls made by the last toggleTheme(), in order
    darkModeOn,         \* ThemeToggleComponent.darkModeOn
    loginPhase,         \* LoginComponent: "constructed", "initialised", "destroyed"
    resetPassword,      \* LoginComponent.resetPassword
    twoFactorAuthenticationRequired,
    alertSubscribed,    \* LoginComponent.alert$ is an open subscription
    themeSubscribed,    \* LoginComponent.theme$ is an open subscription
    themeDarkEnabled,   \* LoginComponent.themeDarkEnabled
    logoPath,           \* LoginComponent.logoPath
    routerUrl,          \* URL the router was last asked to show
    tenantSelectorShown,\* value returned by the last displayTenantSelector()
    lastEvent,          \* the handler that ran last
    lastAlert,          \* type of the alert emitted last
    \* licence-header script
    argv,               \* process.argv.slice(2)
    fileSystem,         \* the files on disk, by path
    startFileSystem,    \* the files on disk when the first run started
    dryRun,             \* main: dryRun
    files,              \* main: files
    position,           \* main: index of the next element of files.forEach
    modifiedCount,      \* main: modifiedCount
    skippedCount,       \* main: skippedCount
    scriptPc,           \* where main() is: "start", "loop", "done", "usage"
    runs                \* number of runs of the script started so far

authVars == <<environment, origin, authMode, authConfig, modeCalls, configCalls>>

loginVars ==
    <<themeDarkSetting, tenantIdentifier, themingDarkMode, serviceCalls, darkModeOn,
      loginPhase, resetPassword, twoFactorAuthenticationRequired, alertSubscribed,
      themeSubscribed, themeDarkEnabled, logoPath, routerUrl, tenantSelectorShown,
      lastEvent, lastAlert>>

scriptVars ==
    <<argv, fileSystem, startFileSystem, dryRun, files, position, modifiedCount,
      skippedCount, scriptPc, runs>>

vars == <<authVars, loginVars, scriptVars>>

-----------------------------------------------------------------------------
(* Bounds of the model *)

\* total number of calls of the two exported functions in one behaviour
MaxCalls == 2

\* largest number of command-line arguments given to the header script
MaxArgs == 3

\* largest number of consecutive runs of the header script
MaxRuns == 2

-----------------------------------------------------------------------------
(* JavaScript values: a string, or undefined (an unset configuration key) *)

Undefined == [tag |-> "undefined"]

Str(s) == [tag |-> "string", s |-> s]

\* ToBoolean: undefined and '' are falsy, every other string is truthy
Truthy(v) == v.tag = "string" /\ v.s # ""

\* the `a || b` expression
Or(a, b) == IF Truthy(a) THEN a ELSE b

\* ToString of a value interpolated by a template literal `${v}`
Interpolate(v) == IF v.tag = "undefined" THEN "undefined" ELSE v.s

-----------------------------------------------------------------------------
(* enum AuthMode *)

AuthModeOAuth2 == "oauth2"

AuthModeOIDC == "oidc"

AuthModeBasic == "basic"

AuthMode == {AuthModeOAuth2, AuthModeOIDC, AuthModeBasic}

-----------------------------------------------------------------------------
(* The functions of the module *)

\* mutant: oauth.enabled is tested before OIDC.oidcServerEnabled
getActiveAuthModeOAuthFirst(env) ==
    IF env.oauth.enabled THEN AuthModeOAuth2
    ELSE IF env.OIDC.oidcServerEnabled THEN AuthModeOIDC
    ELSE AuthModeBasic

getActiveAuthMode(env) ==
    IF env.OIDC.oidcServerEnabled THEN AuthModeOIDC
    ELSE IF env.oauth.enabled THEN AuthModeOAuth2
    ELSE AuthModeBasic

\* mutant: oidcFrontUrl is ignored
frontUrlOriginOnly(env, org) == Str(org)

\* const frontUrl = environment.OIDC.oidcFrontUrl || window.location.origin
frontUrl(env, org) == Or(env.OIDC.oidcFrontUrl, Str(org))

\* mutant: silent refresh is switched on for OIDC providers
getOIDCConfigSilentRefresh(env, org) ==
    [ issuer                |-> env.OIDC.oidcBaseUrl,
      clientId              |-> env.OIDC.oidcClientId,
      redirectUri           |-> Str(Interpolate(frontUrl(env, org)) \o "/callback"),
      postLogoutRedirectUri |-> Str(Interpolate(frontUrl(env, org)) \o "/#/login"),
      responseType          |-> Str("code"),
      scope                 |-> Str("openid profile email offline_access"),
      oidc                  |-> TRUE,
      useSilentRefresh      |-> TRUE,
      requireHttps          |-> env.production,
      showDebugInformation  |-> ~env.production,
      sessionChecksEnabled  |-> FALSE,
      clearHashAfterLogin   |-> FALSE ]

\* mutant: an empty oidcClientId falls back to the OAuth2 application id
getOIDCConfigAppIdFallback(env, org) ==
    [ issuer                |-> env.OIDC.oidcBaseUrl,
      clientId              |-> Or(env.OIDC.oidcClientId, env.oauth.appId),
      redirectUri           |-> Str(Interpolate(frontUrl(env, org)) \o "/callback"),
      postLogoutRedirectUri |-> Str(Interpolate(frontUrl(env, org)) \o "/#/login"),
      responseType          |-> Str("code"),
      scope                 |-> Str("openid profile email offline_access"),
      oidc                  |-> TRUE,
      useSilentRefresh      |-> FALSE,
      requireHttps          |-> env.production,
      showDebugInformation  |-> ~env.production,
      sessionChecksEnabled  |-> FALSE,
      clearHashAfterLogin   |-> FALSE ]

getOIDCConfig(env, org) ==
    [ issuer                |-> env.OIDC.oidcBaseUrl,
      clientId              |-> env.OIDC.oidcClientId,
      redirectUri           |-> Str(Interpolate(frontUrl(env, org)) \o "/callback"),
      postLogoutRedirectUri |-> Str(Interpolate(frontUrl(env, org)) \o "/#/login"),
      responseType          |-> Str("code"),
      scope                 |-> Str("openid profile email offline_access"),
      oidc                  |-> TRUE,
      useSilentRefresh      |-> FALSE,
      requireHttps          |-> env.production,
      showDebugInformation  |-> ~env.production,
      sessionChecksEnabled  |-> FALSE,
      clearHashAfterLogin   |-> FALSE ]

\* mutant: no default realm
realmNoDefault(env) == env.oauth.realm

\* const realm = environment.oauth.realm || 'fineract'
realm(env) == Or(env.oauth.realm, Str("fineract"))

\* `${serverUrl}/realms/${realm}/protocol/openid-connect/${endpoint}`
keycloakUrl(env, endpoint) ==
    Str(Interpolate(env.oauth.serverUrl) \o "/realms/" \o Interpolate(realm(env))
            \o "/protocol/openid-connect/" \o endpoint)

\* mutant: the derived URL wins over the explicit override
authorizeUrlDerivedFirst(env) ==
    IF Truthy(env.oauth.serverUrl) THEN keycloakUrl(env, "auth")
    ELSE Or(env.oauth.authorizeUrl, Str(""))

authorizeUrl(env) ==
    Or(env.oauth.authorizeUrl,
       IF Truthy(env.oauth.serverUrl) THEN keycloakUrl(env, "auth") ELSE Str(""))

\* mutant: the URL is derived without testing serverUrl
tokenUrlUnguarded(env) == Or(env.oauth.tokenUrl, keycloakUrl(env, "token"))

tokenUrl(env) ==
    Or(env.oauth.tokenUrl,
       IF Truthy(env.oauth.serverUrl) THEN keycloakUrl(env, "token") ELSE Str(""))

\* computed by getOAuth2Config but not part of the record it returns
logoutUrl(env) ==
    Or(env.oauth.logoutUrl,
       IF Truthy(env.oauth.serverUrl) THEN keycloakUrl(env, "logout") ELSE Str(""))

redirectUri(env, org) == Or(env.oauth.redirectUri, Str(org \o "/#/callback"))

\* mutant: the default scope is the one of the OIDC branch
scopeOidcDefault(env) == Or(env.oauth.scope, Str("openid profile email offline_access"))

scope(env) == Or(env.oauth.scope, Str("openid profile email"))

\* mutant: the issuer is guarded by serverUrl like the endpoint URLs
issuerGuarded(env) ==
    IF Truthy(env.oauth.serverUrl)
      THEN Str(Interpolate(env.oauth.serverUrl) \o "/realms/" \o Interpolate(realm(env)))
      ELSE Str("")

\* issuer: `${serverUrl}/realms/${realm}`
issuer(env) ==
    Str(Interpolate(env.oauth.serverUrl) \o "/realms/" \o Interpolate(realm(env)))

\* mutant: debug information is shown in production builds too
getOAuth2ConfigDebugAlways(env, org) ==
    [ issuer                |-> issuer(env),
      loginUrl              |-> authorizeUrl(env),
      tokenEndpoint         |-> tokenUrl(env),
      redirectUri           |-> redirectUri(env, org),
      postLogoutRedirectUri |-> Str(org \o "/#/login"),
      clientId              |-> env.oauth.appId,
      responseType          |-> Str("code"),
      scope                 |-> scope(env),
      useSilentRefresh      |-> FALSE,
      oidc                  |-> FALSE,
      skipIssuerCheck       |-> TRUE,
      strictDiscoveryDocumentValidation |-> FALSE,
      requireHttps          |-> env.production,
      showDebugInformation  |-> TRUE,
      sessionChecksEnabled  |-> FALSE,
      clearHashAfterLogin   |-> FALSE ]

getOAuth2Config(env, org) ==
    [ issuer                |-> issuer(env),
      loginUrl              |-> authorizeUrl(env),
      tokenEndpoint         |-> tokenUrl(env),
      redirectUri           |-> redirectUri(env, org),
      postLogoutRedirectUri |-> Str(org \o "/#/login"),
      clientId              |-> env.oauth.appId,
      responseType          |-> Str("code"),
      scope                 |-> scope(env),
      useSilentRefresh      |-> FALSE,
      oidc                  |-> FALSE,
      skipIssuerCheck       |-> TRUE,
      strictDiscoveryDocumentValidation |-> FALSE,
      requireHttps          |-> env.production,
      showDebugInformation  |-> ~env.production,
      sessionChecksEnabled  |-> FALSE,
      clearHashAfterLogin   |-> FALSE ]

\* mutant: the switch has no OAuth2 case
getOAuthConfigNoOAuth2Case(env, org) ==
    LET mode == getActiveAuthMode(env)
    IN  CASE mode = AuthModeOIDC -> getOIDCConfig(env, org)
          [] OTHER               -> [clientId |-> Str("")]

\* mutant: the default case builds the OAuth2 configuration
getOAuthConfigDefaultOAuth2(env, org) ==
    LET mode == getActiveAuthMode(env)
    IN  CASE mode = AuthModeOIDC -> getOIDCConfig(env, org)
          [] OTHER               -> getOAuth2Config(env, org)

\* mutant: every mode without a client id collapses to the Basic record
getOAuthConfigEmptyClientIsBasic(env, org) ==
    LET mode == getActiveAuthMode(env)
        cfg  == CASE mode = AuthModeOIDC   -> getOIDCConfig(env, org)
                  [] mode = AuthModeOAuth2 -> getOAuth2Config(env, org)
                  [] OTHER                 -> [clientId |-> Str("")]
    IN  IF Truthy(cfg.clientId) THEN cfg ELSE [clientId |-> Str("")]

getOAuthConfig(env, org) ==
    LET mode == getActiveAuthMode(env)
    IN  CASE mode = AuthModeOIDC   -> getOIDCConfig(env, org)
          [] mode = AuthModeOAuth2 -> getOAuth2Config(env, org)
          [] OTHER                 -> [clientId |-> Str("")]

-----------------------------------------------------------------------------
(* Inputs: the environment configurations and origins explored *)

Origins == {"https://host", "http://localhost:4200"}

OidcBaseUrls == {Str(""), Str("https://idp.example.com")}

OidcClientIds == {Str(""), Str("mifos-oidc")}

OidcFrontUrls == {Undefined, Str(""), Str("https://front.example.com")}

ServerUrls == {Undefined, Str(""), Str("https://auth.example.com")}

Realms == {Undefined, Str(""), Str("mifos")}

AuthorizeUrls == {Undefined, Str(""), Str("https://sso.example.com/authorize")}

TokenUrls == {Str(""), Str("https://sso.example.com/token")}

LogoutUrls == {Undefined, Str("https://sso.example.com/logout")}

RedirectUris == {Undefined, Str("https://app.example.com/cb")}

Scopes == {Str(""), Str("openid")}

AppIds == {Undefined, Str(""), Str("community-app")}

Environments ==
    [ production : BOOLEAN,
      OIDC  : [ oidcServerEnabled : BOOLEAN,
                oidcBaseUrl  : OidcBaseUrls,
                oidcClientId : OidcClientIds,
                oidcFrontUrl : OidcFrontUrls ],
      oauth : [ enabled      : BOOLEAN,
                serverUrl    : ServerUrls,
                realm        : Realms,
                authorizeUrl : AuthorizeUrls,
                tokenUrl     : TokenUrls,
                logoutUrl    : LogoutUrls,
                redirectUri  : RedirectUris,
                scope        : Scopes,
                appId        : AppIds ] ]

-----------------------------------------------------------------------------
(* Values of the other parts of the repository while they are not running *)

\* a JavaScript boolean
Bool(b) == [tag |-> "boolean", b |-> b]

\* ToBoolean of any value, as applied by `!v` and `!!v`
ToBoolean(v) ==
    CASE v.tag = "boolean" -> v.b
      [] v.tag = "string"  -> v.s # ""
      [] OTHER             -> FALSE

\* logoPath = 'assets/images/default_home.png'
DefaultLogoPath == "assets/images/default_home.png"

\* the login page is not open
LoginIdle ==
    /\ themeDarkSetting = Undefined
    /\ tenantIdentifier = Str("default")
    /\ themingDarkMode = Undefined
    /\ serviceCalls = <<>>
    /\ darkModeOn = Undefined
    /\ loginPhase = "constructed"
    /\ resetPassword = FALSE
    /\ twoFactorAuthenticationRequired = FALSE
    /\ alertSubscribed = FALSE
    /\ themeSubscribed = FALSE
    /\ themeDarkEnabled = Bool(FALSE)
    /\ logoPath = DefaultLogoPath
    /\ routerUrl = "/login"
    /\ tenantSelectorShown = Undefined
    /\ lastEvent = "none"
    /\ lastAlert = "none"

\* the licence-header script is not running
ScriptIdle ==
    /\ argv = <<>>
    /\ fileSystem = <<>>
    /\ startFileSystem = <<>>
    /\ dryRun = FALSE
    /\ files = <<>>
    /\ position = 1
    /\ modifiedCount = 0
    /\ skippedCount = 0
    /\ scriptPc = "start"
    /\ runs = 0

-----------------------------------------------------------------------------
(* State machine *)

\* value of authMode before getActiveAuthMode() was ever called
NoMode == "not-called"

\* value of authConfig before getOAuthConfig() was ever called
NoConfig == [notCalled |-> TRUE]

Init ==
    /\ environment \in Environments
    /\ origin \in Origins
    /\ authMode = NoMode
    /\ authConfig = NoConfig
    /\ modeCalls = 0
    /\ configCalls = 0
    /\ LoginIdle
    /\ ScriptIdle

\* mutant: getActiveAuthMode clears oauth.enabled when OIDC takes precedence
CallGetActiveAuthModeNormalising ==
    /\ modeCalls + configCalls < MaxCalls
    /\ authMode' = getActiveAuthMode(environment)
    /\ environment' = [environment EXCEPT
                          !.oauth.enabled = @ /\ ~environment.OIDC.oidcServerEnabled]
    /\ modeCalls' = modeCalls + 1
    /\ UNCHANGED <<origin, authConfig, configCalls, loginVars, scriptVars>>

\* a caller evaluates getActiveAuthMode()
CallGetActiveAuthMode ==
    /\ modeCalls + configCalls < MaxCalls
    /\ authMode' = getActiveAuthMode(environment)
    /\ modeCalls' = modeCalls + 1
    /\ UNCHANGED <<environment, origin, authConfig, configCalls, loginVars, scriptVars>>

\* what a caller would observe if getOAuthConfig() threw
TypeError == [exception |-> "TypeError"]

\* mutant: the OAuth2 branch validates serverUrl and throws when it is empty
CallGetOAuthConfigValidating ==
    /\ modeCalls + configCalls < MaxCalls
    /\ authConfig' =
          IF getActiveAuthMode(environment) = AuthModeOAuth2
                /\ ~Truthy(environment.oauth.serverUrl)
            THEN TypeError
            ELSE getOAuthConfig(environment, origin)
    /\ configCalls' = configCalls + 1
    /\ UNCHANGED <<environment, origin, authMode, modeCalls, loginVars, scriptVars>>

\* a caller evaluates getOAuthConfig()
CallGetOAuthConfig ==
    /\ modeCalls + configCalls < MaxCalls
    /\ authConfig' = getOAuthConfig(environment, origin)
    /\ configCalls' = configCalls + 1
    /\ UNCHANGED <<environment, origin, authMode, modeCalls, loginVars, scriptVars>>

Next == CallGetActiveAuthMode \/ CallGetOAuthConfig

Spec == Init /\ [][Next]_vars

-----------------------------------------------------------------------------
(* The login page: LoginComponent and ThemeToggleComponent *)

Whitespace == {" ", "\t", "\n", "\r"}

RECURSIVE TrimStart(_)
TrimStart(s) ==
    IF Len(s) > 0 /\ SubSeq(s, 1, 1) \in Whitespace
      THEN TrimStart(SubSeq(s, 2, Len(s)))
      ELSE s

RECURSIVE TrimEnd(_)
TrimEnd(s) ==
    IF Len(s) > 0 /\ SubSeq(s, Len(s), Len(s)) \in Whitespace
      THEN TrimEnd(SubSeq(s, 1, Len(s) - 1))
      ELSE s

\* String.prototype.trim
Trim(s) == TrimEnd(TrimStart(s))

\* SettingsService.setThemeDarkEnabled(v): the setting read back by the
\* themeDarkEnabled getter
setThemeDarkEnabled(v) == Bool(v)

\* ThemingService.setDarkMode(v): the dark mode announced on the theme stream
setDarkMode(v) == Bool(v)

\* mutant: the selector is hidden whenever the active mode is not Basic
displayTenantSelectorByAuthMode(env) ==
    IF getActiveAuthMode(env) # AuthModeBasic THEN FALSE
    ELSE IF env.displayTenantSelector = Str("false") THEN FALSE ELSE TRUE

displayTenantSelector(env) ==
    IF env.oauth.enabled THEN FALSE
    ELSE IF env.displayTenantSelector = Str("false") THEN FALSE ELSE TRUE

updateLogo(env, tenant) ==
    IF Truthy(env.tenantLogoUrl) /\ Trim(env.tenantLogoUrl.s) # ""
      THEN env.tenantLogoUrl.s
    ELSE IF Truthy(tenant) /\ tenant # Str("default")
      THEN "assets/images/" \o Interpolate(tenant) \o "_home.png"
    ELSE DefaultLogoPath

AlertTypes ==
    { "Password Expired", "Two Factor Authentication Required",
      "Authentication Success", "Tenant Changed", "Authentication Error" }

Tenants == {Undefined, Str("default"), Str("acme")}

ThemeSettings == {Undefined, Bool(FALSE), Bool(TRUE)}

DisplayTenantSelectorValues == {Undefined, Str("false"), Str("true")}

TenantLogoUrls == {Undefined, Str("  "), Str("https://cdn.example.com/logo.png")}

\* the environments of the login page: the auth flags vary, the values only
\* the configuration builders read are fixed
LoginEnvironments ==
    [ production : {FALSE},
      OIDC  : [ oidcServerEnabled : BOOLEAN,
                oidcBaseUrl  : {Str("")},
                oidcClientId : {Str("")},
                oidcFrontUrl : {Undefined} ],
      oauth : [ enabled      : BOOLEAN,
                serverUrl    : {Str("")},
                realm        : {Undefined},
                authorizeUrl : {Undefined},
                tokenUrl     : {Str("")},
                logoutUrl    : {Undefined},
                redirectUri  : {Undefined},
                scope        : {Str("")},
                appId        : {Str("")} ],
      displayTenantSelector : DisplayTenantSelectorValues,
      tenantLogoUrl : TenantLogoUrls ]

InitLogin ==
    /\ environment \in LoginEnvironments
    /\ origin = "https://host"
    /\ authMode = NoMode
    /\ authConfig = NoConfig
    /\ modeCalls = 0
    /\ configCalls = 0
    /\ themeDarkSetting \in ThemeSettings
    /\ tenantIdentifier \in Tenants
    /\ themingDarkMode = Undefined
    /\ serviceCalls = <<>>
    /\ darkModeOn = Undefined
    /\ loginPhase = "constructed"
    /\ resetPassword = FALSE
    /\ twoFactorAuthenticationRequired = FALSE
    /\ alertSubscribed = FALSE
    /\ themeSubscribed = FALSE
    /\ themeDarkEnabled = Bool(FALSE)
    /\ logoPath = DefaultLogoPath
    /\ routerUrl = "/login"
    /\ tenantSelectorShown = Undefined
    /\ lastEvent = "none"
    /\ lastAlert = "none"
    /\ ScriptIdle

\* LoginComponent.ngOnInit
LoginNgOnInit ==
    /\ loginPhase = "constructed"
    /\ logoPath' = updateLogo(environment, tenantIdentifier)
    /\ themeDarkEnabled' = themeDarkSetting
    /\ themeSubscribed' = TRUE
    /\ themingDarkMode' = setDarkMode(ToBoolean(themeDarkSetting))
    /\ alertSubscribed' = TRUE
    /\ loginPhase' = "initialised"
    /\ lastEvent' = "LoginComponent.ngOnInit"
    /\ UNCHANGED <<themeDarkSetting, tenantIdentifier, serviceCalls, darkModeOn,
                   resetPassword, twoFactorAuthenticationRequired, routerUrl,
                   tenantSelectorShown, lastAlert, authVars, scriptVars>>

\* LoginComponent.ngOnDestroy
LoginNgOnDestroy ==
    /\ loginPhase = "initialised"
    /\ alertSubscribed' = FALSE
    /\ themeSubscribed' = FALSE
    /\ loginPhase' = "destroyed"
    /\ lastEvent' = "LoginComponent.ngOnDestroy"
    /\ UNCHANGED <<themeDarkSetting, tenantIdentifier, themingDarkMode, serviceCalls,
                   darkModeOn, resetPassword, twoFactorAuthenticationRequired,
                   themeDarkEnabled, logoPath, routerUrl, tenantSelectorShown,
                   lastAlert, authVars, scriptVars>>

\* the login route is opened again: a new LoginComponent with its field
\* initialisers
LoginConstruct ==
    /\ loginPhase = "destroyed"
    /\ loginPhase' = "constructed"
    /\ resetPassword' = FALSE
    /\ twoFactorAuthenticationRequired' = FALSE
    /\ themeDarkEnabled' = Bool(FALSE)
    /\ logoPath' = DefaultLogoPath
    /\ routerUrl' = "/login"
    /\ lastEvent' = "LoginComponent.constructor"
    /\ UNCHANGED <<themeDarkSetting, tenantIdentifier, themingDarkMode, serviceCalls,
                   darkModeOn, alertSubscribed, themeSubscribed, tenantSelectorShown,
                   lastAlert, authVars, scriptVars>>

\* mutant: the two-factor branch does not clear resetPassword
EmitAlertKeepingReset(type) ==
    /\ lastAlert' = type
    /\ lastEvent' = "alertEvent"
    /\ IF ~alertSubscribed
         THEN UNCHANGED <<resetPassword, twoFactorAuthenticationRequired, routerUrl,
                          logoPath>>
       ELSE IF type = "Password Expired"
         THEN /\ twoFactorAuthenticationRequired' = FALSE
              /\ resetPassword' = TRUE
              /\ UNCHANGED <<routerUrl, logoPath>>
       ELSE IF type = "Two Factor Authentication Required"
         THEN /\ twoFactorAuthenticationRequired' = TRUE
              /\ UNCHANGED <<resetPassword, routerUrl, logoPath>>
       ELSE IF type = "Authentication Success"
         THEN /\ resetPassword' = FALSE
              /\ twoFactorAuthenticationRequired' = FALSE
              /\ routerUrl' = "/"
              /\ UNCHANGED logoPath
       ELSE IF type = "Tenant Changed"
         THEN /\ logoPath' = updateLogo(environment, tenantIdentifier)
              /\ UNCHANGED <<resetPassword, twoFactorAuthenticationRequired, routerUrl>>
       ELSE UNCHANGED <<resetPassword, twoFactorAuthenticationRequired, routerUrl,
                        logoPath>>
    /\ UNCHANGED <<themeDarkSetting, tenantIdentifier, themingDarkMode, serviceCalls,
                   darkModeOn, loginPhase, alertSubscribed, themeSubscribed,
                   themeDarkEnabled, tenantSelectorShown, authVars, scriptVars>>

\* alertService.alertEvent emits an alert; the handler subscribed in ngOnInit
\* runs while the subscription is open
EmitAlert(type) ==
    /\ lastAlert' = type
    /\ lastEvent' = "alertEvent"
    /\ IF ~alertSubscribed
         THEN UNCHANGED <<resetPassword, twoFactorAuthenticationRequired, routerUrl,
                          logoPath>>
       ELSE IF type = "Password Expired"
         THEN /\ twoFactorAuthenticationRequired' = FALSE
              /\ resetPassword' = TRUE
              /\ UNCHANGED <<routerUrl, logoPath>>
       ELSE IF type = "Two Factor Authentication Required"
         THEN /\ resetPassword' = FALSE
              /\ twoFactorAuthenticationRequired' = TRUE
              /\ UNCHANGED <<routerUrl, logoPath>>
       ELSE IF type = "Authentication Success"
         THEN /\ resetPassword' = FALSE
              /\ twoFactorAuthenticationRequired' = FALSE
              /\ routerUrl' = "/"
              /\ UNCHANGED logoPath
       ELSE IF type = "Tenant Changed"
         THEN /\ logoPath' = updateLogo(environment, tenantIdentifier)
              /\ UNCHANGED <<resetPassword, twoFactorAuthenticationRequired, routerUrl>>
       ELSE UNCHANGED <<resetPassword, twoFactorAuthenticationRequired, routerUrl,
                        logoPath>>
    /\ UNCHANGED <<themeDarkSetting, tenantIdentifier, themingDarkMode, serviceCalls,
                   darkModeOn, loginPhase, alertSubscribed, themeSubscribed,
                   themeDarkEnabled, tenantSelectorShown, authVars, scriptVars>>

\* the tenant selector stores another tenant in the settings
SetTenantIdentifier(tenant) ==
    /\ tenant # tenantIdentifier
    /\ tenantIdentifier' = tenant
    /\ lastEvent' = "setTenantIdentifier"
    /\ UNCHANGED <<themeDarkSetting, themingDarkMode, serviceCalls, darkModeOn,
                   loginPhase, resetPassword, twoFactorAuthenticationRequired,
                   alertSubscribed, themeSubscribed, themeDarkEnabled, logoPath,
                   routerUrl, tenantSelectorShown, lastAlert, authVars, scriptVars>>

\* LoginComponent.onLogoError
OnLogoError ==
    /\ loginPhase = "initialised"
    /\ logoPath' = DefaultLogoPath
    /\ lastEvent' = "onLogoError"
    /\ UNCHANGED <<themeDarkSetting, tenantIdentifier, themingDarkMode, serviceCalls,
                   darkModeOn, loginPhase, resetPassword,
                   twoFactorAuthenticationRequired, alertSubscribed, themeSubscribed,
                   themeDarkEnabled, routerUrl, tenantSelectorShown, lastAlert,
                   authVars, scriptVars>>

\* the template evaluates displayTenantSelector()
CallDisplayTenantSelector ==
    /\ loginPhase = "initialised"
    /\ tenantSelectorShown' = Bool(displayTenantSelector(environment))
    /\ lastEvent' = "displayTenantSelector"
    /\ UNCHANGED <<themeDarkSetting, tenantIdentifier, themingDarkMode, serviceCalls,
                   darkModeOn, loginPhase, resetPassword,
                   twoFactorAuthenticationRequired, alertSubscribed, themeSubscribed,
                   themeDarkEnabled, logoPath, routerUrl, lastAlert, authVars,
                   scriptVars>>

\* ThemeToggleComponent.ngOnInit
ToggleNgOnInit ==
    /\ darkModeOn = Undefined
    /\ darkModeOn' = Bool(ToBoolean(themeDarkSetting))
    /\ lastEvent' = "ThemeToggleComponent.ngOnInit"
    /\ UNCHANGED <<themeDarkSetting, tenantIdentifier, themingDarkMode, serviceCalls,
                   loginPhase, resetPassword, twoFactorAuthenticationRequired,
                   alertSubscribed, themeSubscribed, themeDarkEnabled, logoPath,
                   routerUrl, tenantSelectorShown, lastAlert, authVars, scriptVars>>

\* ThemeToggleComponent.ngOnChanges
ToggleNgOnChanges ==
    /\ darkModeOn' = Bool(ToBoolean(themeDarkSetting))
    /\ lastEvent' = "ThemeToggleComponent.ngOnChanges"
    /\ UNCHANGED <<themeDarkSetting, tenantIdentifier, themingDarkMode, serviceCalls,
                   loginPhase, resetPassword, twoFactorAuthenticationRequired,
                   alertSubscribed, themeSubscribed, themeDarkEnabled, logoPath,
                   routerUrl, tenantSelectorShown, lastAlert, authVars, scriptVars>>

\* mutant: the theming service is told before the setting is persisted
ToggleThemeNotifyFirst ==
    /\ darkModeOn # Undefined
    /\ LET new == ~ToBoolean(darkModeOn)
       IN  /\ darkModeOn' = Bool(new)
           /\ themingDarkMode' = setDarkMode(new)
           /\ themeDarkEnabled' =
                 IF themeSubscribed THEN themeDarkSetting ELSE themeDarkEnabled
           /\ themeDarkSetting' = setThemeDarkEnabled(new)
           /\ serviceCalls' = << <<"themingService.setDarkMode", new>>,
                                 <<"settingsService.setThemeDarkEnabled", new>> >>
    /\ lastEvent' = "toggleTheme"
    /\ UNCHANGED <<tenantIdentifier, loginPhase, resetPassword,
                   twoFactorAuthenticationRequired, alertSubscribed, themeSubscribed,
                   logoPath, routerUrl, tenantSelectorShown, lastAlert, authVars,
                   scriptVars>>

\* ThemeToggleComponent.toggleTheme; the theme stream notifies the
\* LoginComponent, which reads the setting again, during setDarkMode
ToggleTheme ==
    /\ darkModeOn # Undefined
    /\ LET new == ~ToBoolean(darkModeOn)
       IN  /\ darkModeOn' = Bool(new)
           /\ themeDarkSetting' = setThemeDarkEnabled(new)
           /\ themingDarkMode' = setDarkMode(new)
           /\ themeDarkEnabled' =
                 IF themeSubscribed THEN themeDarkSetting' ELSE themeDarkEnabled
           /\ serviceCalls' = << <<"settingsService.setThemeDarkEnabled", new>>,
                                 <<"themingService.setDarkMode", new>> >>
    /\ lastEvent' = "toggleTheme"
    /\ UNCHANGED <<tenantIdentifier, loginPhase, resetPassword,
                   twoFactorAuthenticationRequired, alertSubscribed, themeSubscribed,
                   logoPath, routerUrl, tenantSelectorShown, lastAlert, authVars,
                   scriptVars>>

NextLogin ==
    \/ LoginNgOnInit
    \/ LoginNgOnDestroy
    \/ LoginConstruct
    \/ \E type \in AlertTypes : EmitAlert(type)
    \/ \E tenant \in Tenants : SetTenantIdentifier(tenant)
    \/ OnLogoError
    \/ CallDisplayTenantSelector
    \/ ToggleNgOnInit
    \/ ToggleNgOnChanges
    \/ ToggleTheme

SpecLogin == InitLogin /\ [][NextLogin]_vars

-----------------------------------------------------------------------------
(* The licence-header script: scripts/add-file-headers.js *)

\* String.prototype.includes
Includes(s, n) ==
    \E i \in 1..(Len(s) - Len(n) + 1) : SubSeq(s, i, i + Len(n) - 1) = n

\* String.prototype.startsWith
StartsWith(s, p) == Len(p) <= Len(s) /\ SubSeq(s, 1, Len(p)) = p

\* String.prototype.endsWith
EndsWith(s, p) == Len(p) <= Len(s) /\ SubSeq(s, Len(s) - Len(p) + 1, Len(s)) = p

\* String.prototype.lastIndexOf for a one-character needle (0-based, -1 if absent)
LastIndexOf(s, c) ==
    LET at == {i \in 1..Len(s) : SubSeq(s, i, i) = c}
    IN  IF at = {} THEN -1 ELSE (CHOOSE i \in at : \A j \in at : j <= i) - 1

\* filePath.replace(/\\/g, '/')
RECURSIVE ReplaceBackslashes(_)
ReplaceBackslashes(s) ==
    IF Len(s) = 0 THEN ""
    ELSE (IF SubSeq(s, 1, 1) = "\\" THEN "/" ELSE SubSeq(s, 1, 1))
            \o ReplaceBackslashes(SubSeq(s, 2, Len(s)))

LowerCaseOf ==
    [ c \in { "A", "B", "C", "D", "E", "F", "G", "H", "I", "J", "K", "L", "M",
              "N", "O", "P", "Q", "R", "S", "T", "U", "V", "W", "X", "Y", "Z" } |->
        CASE c = "A" -> "a" [] c = "B" -> "b" [] c = "C" -> "c" [] c = "D" -> "d"
          [] c = "E" -> "e" [] c = "F" -> "f" [] c = "G" -> "g" [] c = "H" -> "h"
          [] c = "I" -> "i" [] c = "J" -> "j" [] c = "K" -> "k" [] c = "L" -> "l"
          [] c = "M" -> "m" [] c = "N" -> "n" [] c = "O" -> "o" [] c = "P" -> "p"
          [] c = "Q" -> "q" [] c = "R" -> "r" [] c = "S" -> "s" [] c = "T" -> "t"
          [] c = "U" -> "u" [] c = "V" -> "v" [] c = "W" -> "w" [] c = "X" -> "x"
          [] c = "Y" -> "y" [] c = "Z" -> "z" ]

\* String.prototype.toLowerCase
RECURSIVE ToLowerCase(_)
ToLowerCase(s) ==
    IF Len(s) = 0 THEN ""
    ELSE (IF SubSeq(s, 1, 1) \in DOMAIN LowerCaseOf
            THEN LowerCaseOf[SubSeq(s, 1, 1)]
            ELSE SubSeq(s, 1, 1))
            \o ToLowerCase(SubSeq(s, 2, Len(s)))

\* path.extname: from the last '.' of the last path segment, '' when that
\* segment has no '.' or only a leading one
ExtName(filePath) ==
    LET base == SubSeq(filePath, LastIndexOf(filePath, "/") + 2, Len(filePath))
        dot  == LastIndexOf(base, ".")
    IN  IF dot <= 0 THEN "" ELSE SubSeq(base, dot + 1, Len(base))

\* HEADERS.code
HeaderCode ==
    "/**\n"
    \o " * Copyright since 2025 Mifos Initiative\n"
    \o " *\n"
    \o " * This Source Code Form is subject to the terms of the Mozilla Public\n"
    \o " * License, v. 2.0. If a copy of the MPL was not distributed with this\n"
    \o " * file, You can obtain one at http://mozilla.org/MPL/2.0/.\n"
    \o " */\n"
    \o "\n"

\* HEADERS.html
HeaderHtml ==
    "<!--\n"
    \o "  Copyright since 2025 Mifos Initiative\n"
    \o "\n"
    \o "  This Source Code Form is subject to the terms of the Mozilla Public\n"
    \o "  License, v. 2.0. If a copy of the MPL was not distributed with this\n"
    \o "  file, You can obtain one at http://mozilla.org/MPL/2.0/.\n"
    \o "-->\n"
    \o "\n"

HEADERS == [code |-> HeaderCode, html |-> HeaderHtml]

FILE_EXTENSIONS == [code |-> {".ts", ".js", ".scss", ".css"}, html |-> {".html"}]

EXCLUDE_PATTERNS ==
    { "node_modules", "dist", "coverage", ".angular", "e2e", "cypress",
      "playwright", ".husky", "setup-jest.ts", "jest.config.ts",
      "cypress.config.ts", "playwright.config.ts", "tailwind.config.js",
      "proxy.conf.js", "proxy.localhost.conf.js", "version.js", "environment.ts",
      "environment.prod.ts", "polyfills.ts", "typings.d.ts", "global.d.ts",
      ".spec.ts", ".spec.js", "tsconfig" }

shouldExclude(filePath) ==
    LET normalizedPath == ReplaceBackslashes(filePath)
    IN  \E pattern \in EXCLUDE_PATTERNS :
            IF StartsWith(pattern, ".") /\ LastIndexOf(pattern, ".") > 0
              THEN EndsWith(normalizedPath, pattern)
              ELSE Includes(normalizedPath, pattern)

\* the value returned for an unsupported file type
NoHeaderType == "null"

getHeaderType(filePath) ==
    LET ext == ToLowerCase(ExtName(filePath))
    IN  IF ext \in FILE_EXTENSIONS.html THEN "html"
        ELSE IF ext \in FILE_EXTENSIONS.code THEN "code"
        ELSE NoHeaderType

hasHeader(content, headerType) ==
    IF headerType = "code"
      THEN Includes(content, "Copyright since 2025 Mifos Initiative")
              /\ Includes(content, "Mozilla Public License")
    ELSE IF headerType = "html"
      THEN Includes(content, "Copyright since 2025 Mifos Initiative")
              /\ Includes(content, "Mozilla Public License")
    ELSE FALSE

\* mutant: the file is written before the dry-run flag is looked at
addHeaderToFileWritingInDryRun(fs, filePath, dry) ==
    LET headerType == getHeaderType(filePath)
        content    == fs[filePath].content
        written    == [fs EXCEPT ![filePath].content = HEADERS[headerType] \o content]
    IN  IF shouldExclude(filePath) THEN [modified |-> FALSE, fileSystem |-> fs]
        ELSE IF headerType = NoHeaderType THEN [modified |-> FALSE, fileSystem |-> fs]
        ELSE IF ~fs[filePath].readable THEN [modified |-> FALSE, fileSystem |-> fs]
        ELSE IF hasHeader(content, headerType)
          THEN [modified |-> FALSE, fileSystem |-> fs]
        ELSE IF Len(Trim(content)) = 0 THEN [modified |-> FALSE, fileSystem |-> fs]
        ELSE IF ~fs[filePath].writable THEN [modified |-> dry, fileSystem |-> fs]
        ELSE [modified |-> TRUE, fileSystem |-> written]

\* addHeaderToFile(filePath, dryRun) on the file system fs: the value returned
\* and the file system it leaves
addHeaderToFile(fs, filePath, dry) ==
    LET headerType == getHeaderType(filePath)
        content    == fs[filePath].content
        written    == [fs EXCEPT ![filePath].content = HEADERS[headerType] \o content]
    IN  IF shouldExclude(filePath) THEN [modified |-> FALSE, fileSystem |-> fs]
        ELSE IF headerType = NoHeaderType THEN [modified |-> FALSE, fileSystem |-> fs]
        ELSE IF ~fs[filePath].readable THEN [modified |-> FALSE, fileSystem |-> fs]
        ELSE IF hasHeader(content, headerType)
          THEN [modified |-> FALSE, fileSystem |-> fs]
        ELSE IF Len(Trim(content)) = 0 THEN [modified |-> FALSE, fileSystem |-> fs]
        ELSE IF dry THEN [modified |-> TRUE, fileSystem |-> fs]
        ELSE IF ~fs[filePath].writable THEN [modified |-> FALSE, fileSystem |-> fs]
        ELSE [modified |-> TRUE, fileSystem |-> written]

\* the files and arguments explored
CodePath == "src/app/app.component.ts"

HtmlPath == "src/index.html"

ExcludedPath == "src/environments/environment.ts"

UnsupportedPath == "README.md"

MissingPath == "src/app/missing.ts"

Paths == {CodePath, HtmlPath, ExcludedPath, UnsupportedPath, MissingPath}

Flags == {"--dry-run", "-d"}

CodeBody == "export const a = 1;\n"

HtmlBody == "<div></div>\n"

\* a licence notice in the wording hasHeader looks for
NoticeCode == "// Copyright since 2025 Mifos Initiative, Mozilla Public License 2.0\n"

File(content, readable, writable) ==
    [exists |-> TRUE, readable |-> readable, writable |-> writable, content |-> content]

NoFile == [exists |-> FALSE, readable |-> FALSE, writable |-> FALSE, content |-> ""]

CodeFiles ==
    { File(CodeBody, TRUE, TRUE), File(CodeBody, TRUE, FALSE), File(CodeBody, FALSE, TRUE),
      File(HeaderCode \o CodeBody, TRUE, TRUE), File(NoticeCode \o CodeBody, TRUE, TRUE),
      File("", TRUE, TRUE), File(" \n", TRUE, TRUE) }

\* the file system with c at CodePath and h at HtmlPath
FileSystem(c, h) ==
    [p \in Paths |->
        CASE p = CodePath        -> c
          [] p = HtmlPath        -> h
          [] p = ExcludedPath    -> File(CodeBody, TRUE, TRUE)
          [] p = UnsupportedPath -> File("# web-app\n", TRUE, TRUE)
          [] OTHER               -> NoFile]

\* every code file beside a plain html file, and the two files with their
\* canonical headers beside each other
FileSystems ==
    { FileSystem(c, File(HtmlBody, TRUE, TRUE)) : c \in CodeFiles }
        \cup { FileSystem(File(HeaderCode \o CodeBody, TRUE, TRUE),
                          File(HeaderHtml \o HtmlBody, TRUE, TRUE)) }

ArgLists == UNION { [1..n -> Paths \cup Flags] : n \in 0..MaxArgs }

\* args.filter((arg) => !arg.startsWith('--') && !arg.startsWith('-'))
RECURSIVE FilterFiles(_)
FilterFiles(args) ==
    IF args = <<>> THEN <<>>
    ELSE (IF ~StartsWith(Head(args), "--") /\ ~StartsWith(Head(args), "-")
            THEN <<Head(args)>> ELSE <<>>) \o FilterFiles(Tail(args))

\* args.includes(flag)
ArgsInclude(args, flag) == \E i \in 1..Len(args) : args[i] = flag

InitHeaders ==
    /\ environment = CHOOSE e \in Environments : TRUE
    /\ origin = "https://host"
    /\ authMode = NoMode
    /\ authConfig = NoConfig
    /\ modeCalls = 0
    /\ configCalls = 0
    /\ LoginIdle
    /\ argv \in ArgLists
    /\ fileSystem \in FileSystems
    /\ startFileSystem = fileSystem
    /\ dryRun = FALSE
    /\ files = <<>>
    /\ position = 1
    /\ modifiedCount = 0
    /\ skippedCount = 0
    /\ scriptPc = "start"
    /\ runs = 0

\* main(): parse the arguments; exit with the usage text when no file is named
MainStart ==
    /\ scriptPc = "start"
    /\ dryRun' = (ArgsInclude(argv, "--dry-run") \/ ArgsInclude(argv, "-d"))
    /\ files' = FilterFiles(argv)
    /\ scriptPc' = IF Len(files') = 0 THEN "usage" ELSE "loop"
    /\ position' = 1
    /\ modifiedCount' = 0
    /\ skippedCount' = 0
    /\ runs' = runs + 1
    /\ UNCHANGED <<argv, fileSystem, startFileSystem, authVars, loginVars>>

\* main(): one iteration of files.forEach
MainForEach ==
    /\ scriptPc = "loop"
    /\ position <= Len(files)
    /\ LET filePath == files[position]
           done     == addHeaderToFile(fileSystem, filePath, dryRun)
       IN  IF ~fileSystem[filePath].exists
             THEN /\ skippedCount' = skippedCount + 1
                  /\ UNCHANGED <<modifiedCount, fileSystem>>
             ELSE /\ fileSystem' = done.fileSystem
                  /\ modifiedCount' = modifiedCount + (IF done.modified THEN 1 ELSE 0)
                  /\ skippedCount' = skippedCount + (IF done.modified THEN 0 ELSE 1)
    /\ position' = position + 1
    /\ UNCHANGED <<argv, startFileSystem, dryRun, files, scriptPc, runs, authVars,
                   loginVars>>

\* main(): the summary is printed and the process ends
MainSummary ==
    /\ scriptPc = "loop"
    /\ position > Len(files)
    /\ scriptPc' = "done"
    /\ UNCHANGED <<argv, fileSystem, startFileSystem, dryRun, files, position,
                   modifiedCount, skippedCount, runs, authVars, loginVars>>

\* the script is run again with the same arguments
RunAgain ==
    /\ scriptPc \in {"done", "usage"}
    /\ runs < MaxRuns
    /\ scriptPc' = "start"
    /\ UNCHANGED <<argv, fileSystem, startFileSystem, dryRun, files, position,
                   modifiedCount, skippedCount, runs, authVars, loginVars>>

NextHeaders == MainStart \/ MainForEach \/ MainSummary \/ RunAgain

SpecHeaders == InitHeaders /\ [][NextHeaders]_vars

-----------------------------------------------------------------------------
(* Properties *)

ModeReturned == authMode # NoMode

ConfigReturned == authConfig # NoConfig

\* C1: whenever OIDC.oidcServerEnabled is true, getActiveAuthMode returns
\* AuthMode.OIDC and getOAuthConfig returns the OIDC configuration, whatever
\* the value of oauth.enabled.
C1_OidcEnabledGivesOidc ==
    environment.OIDC.oidcServerEnabled =>
        /\ ModeReturned => authMode = AuthModeOIDC
        /\ ConfigReturned =>
              /\ authConfig = getOIDCConfig(environment, origin)
              /\ authConfig.oidc = TRUE
              /\ authConfig.issuer = environment.OIDC.oidcBaseUrl
              /\ authConfig.clientId = environment.OIDC.oidcClientId

\* both flags are set and both functions have answered for OIDC
C1_Witness ==
    /\ environment.OIDC.oidcServerEnabled
    /\ environment.oauth.enabled
    /\ authMode = AuthModeOIDC
    /\ ConfigReturned
    /\ authConfig.oidc = TRUE

\* C2: with OIDC.oidcServerEnabled false and oauth.enabled true,
\* getActiveAuthMode returns AuthMode.OAuth2 and getOAuthConfig returns the
\* OAuth2 configuration (oidc = false).
C2_OauthEnabledGivesOAuth2 ==
    (~environment.OIDC.oidcServerEnabled /\ environment.oauth.enabled) =>
        /\ ModeReturned => authMode = AuthModeOAuth2
        /\ ConfigReturned =>
              /\ authConfig = getOAuth2Config(environment, origin)
              /\ authConfig.oidc = FALSE
              /\ authConfig.clientId = environment.oauth.appId

C2_Witness ==
    /\ ~environment.OIDC.oidcServerEnabled
    /\ environment.oauth.enabled
    /\ authMode = AuthModeOAuth2
    /\ ConfigReturned
    /\ authConfig.oidc = FALSE

\* C3: with both OIDC.oidcServerEnabled and oauth.enabled false,
\* getActiveAuthMode returns AuthMode.Basic and getOAuthConfig returns exactly
\* the record {clientId: ''} with no other field, whatever the other
\* configuration values are.
C3_BothDisabledGivesBasic ==
    (~environment.OIDC.oidcServerEnabled /\ ~environment.oauth.enabled) =>
        /\ ModeReturned => authMode = AuthModeBasic
        /\ ConfigReturned =>
              /\ DOMAIN authConfig = {"clientId"}
              /\ authConfig.clientId = Str("")

\* Basic mode answered for a configuration whose other values are all set
C3_Witness ==
    /\ ~environment.OIDC.oidcServerEnabled
    /\ ~environment.oauth.enabled
    /\ Truthy(environment.oauth.serverUrl)
    /\ Truthy(environment.oauth.appId)
    /\ Truthy(environment.OIDC.oidcClientId)
    /\ authMode = AuthModeBasic
    /\ authConfig = [clientId |-> Str("")]

\* C4: in OIDC mode frontUrl is OIDC.oidcFrontUrl when it is non-empty and the
\* browser origin otherwise; redirectUri is frontUrl + '/callback' and
\* postLogoutRedirectUri is frontUrl + '/#/login'.
C4_OidcRedirectsFromFrontUrl ==
    (environment.OIDC.oidcServerEnabled /\ ConfigReturned) =>
        LET front == IF Truthy(environment.OIDC.oidcFrontUrl)
                       THEN environment.OIDC.oidcFrontUrl.s
                       ELSE origin
        IN  /\ authConfig.redirectUri = Str(front \o "/callback")
            /\ authConfig.postLogoutRedirectUri = Str(front \o "/#/login")

\* oidcFrontUrl = '' and origin 'https://host' give 'https://host/callback'
C4_Witness ==
    /\ environment.OIDC.oidcServerEnabled
    /\ environment.OIDC.oidcFrontUrl = Str("")
    /\ origin = "https://host"
    /\ ConfigReturned
    /\ authConfig.redirectUri = Str("https://host/callback")
    /\ authConfig.postLogoutRedirectUri = Str("https://host/#/login")

\* the realm the OAuth2 branch uses: oauth.realm when set, else 'fineract'
RealmOrDefault ==
    IF Truthy(environment.oauth.realm) THEN environment.oauth.realm.s ELSE "fineract"

InOAuth2Mode == ~environment.OIDC.oidcServerEnabled /\ environment.oauth.enabled

\* C5: in OAuth2 mode with a non-empty oauth.serverUrl and no explicit
\* authorizeUrl/tokenUrl/logoutUrl, loginUrl and tokenEndpoint are
\* serverUrl + '/realms/' + realm + '/protocol/openid-connect/auth' and
\* '.../token', where realm is oauth.realm when set and 'fineract' when unset
\* or empty.
C5_DerivedKeycloakUrls ==
    ( /\ InOAuth2Mode
      /\ ConfigReturned
      /\ Truthy(environment.oauth.serverUrl)
      /\ ~Truthy(environment.oauth.authorizeUrl)
      /\ ~Truthy(environment.oauth.tokenUrl)
      /\ ~Truthy(environment.oauth.logoutUrl) ) =>
        LET base == environment.oauth.serverUrl.s \o "/realms/" \o RealmOrDefault
        IN  /\ authConfig.loginUrl = Str(base \o "/protocol/openid-connect/auth")
            /\ authConfig.tokenEndpoint = Str(base \o "/protocol/openid-connect/token")

\* serverUrl 'https://auth.example.com', realm unset, no override
C5_Witness ==
    /\ InOAuth2Mode
    /\ environment.oauth.serverUrl = Str("https://auth.example.com")
    /\ environment.oauth.realm = Undefined
    /\ environment.oauth.authorizeUrl = Undefined
    /\ ~Truthy(environment.oauth.tokenUrl)
    /\ ~Truthy(environment.oauth.logoutUrl)
    /\ ConfigReturned
    /\ authConfig.loginUrl =
          Str("https://auth.example.com/realms/fineract/protocol/openid-connect/auth")
    /\ authConfig.tokenEndpoint =
          Str("https://auth.example.com/realms/fineract/protocol/openid-connect/token")

\* C6: in OAuth2 mode an explicit non-empty oauth.authorizeUrl (oauth.tokenUrl)
\* is the output loginUrl (tokenEndpoint) exactly, for every serverUrl and
\* realm; the derived Keycloak URL is never used in its place.
C6_ExplicitUrlsTakePrecedence ==
    (InOAuth2Mode /\ ConfigReturned) =>
        /\ Truthy(environment.oauth.authorizeUrl) =>
              authConfig.loginUrl = environment.oauth.authorizeUrl
        /\ Truthy(environment.oauth.tokenUrl) =>
              authConfig.tokenEndpoint = environment.oauth.tokenUrl

\* both overrides are set next to a serverUrl from which URLs could be derived
C6_Witness ==
    /\ InOAuth2Mode
    /\ Truthy(environment.oauth.serverUrl)
    /\ Truthy(environment.oauth.realm)
    /\ Truthy(environment.oauth.authorizeUrl)
    /\ Truthy(environment.oauth.tokenUrl)
    /\ ConfigReturned
    /\ authConfig.loginUrl = environment.oauth.authorizeUrl
    /\ authConfig.tokenEndpoint = environment.oauth.tokenUrl

\* C7: in OAuth2 mode, when oauth.serverUrl is empty and no explicit
\* authorizeUrl/tokenUrl is given, loginUrl and tokenEndpoint are the empty
\* string (not a path beginning with '/realms/'), and a configuration is
\* still returned.
C7_EmptyServerUrlGivesEmptyUrls ==
    ( /\ InOAuth2Mode
      /\ ConfigReturned
      /\ ~Truthy(environment.oauth.serverUrl)
      /\ ~Truthy(environment.oauth.authorizeUrl)
      /\ ~Truthy(environment.oauth.tokenUrl) ) =>
        /\ "clientId" \in DOMAIN authConfig
        /\ authConfig.loginUrl = Str("")
        /\ authConfig.tokenEndpoint = Str("")

C7_Witness ==
    /\ InOAuth2Mode
    /\ environment.oauth.serverUrl = Str("")
    /\ environment.oauth.authorizeUrl = Undefined
    /\ environment.oauth.tokenUrl = Str("")
    /\ ConfigReturned
    /\ authConfig.loginUrl = Str("")
    /\ authConfig.tokenEndpoint = Str("")

\* C8: in OAuth2 mode the issuer is always serverUrl + '/realms/' + realm
\* (realm defaulting to 'fineract'): explicit authorizeUrl/tokenUrl/logoutUrl
\* do not affect it and it is still built, as '/realms/<realm>', when
\* serverUrl is empty.
C8_IssuerAlwaysBuilt ==
    (InOAuth2Mode /\ ConfigReturned) =>
        /\ authConfig.issuer =
              Str(Interpolate(environment.oauth.serverUrl) \o "/realms/" \o RealmOrDefault)
        /\ environment.oauth.serverUrl = Str("") =>
              authConfig.issuer = Str("/realms/" \o RealmOrDefault)

\* serverUrl is empty, overrides are set, and the issuer is '/realms/fineract'
C8_Witness ==
    /\ InOAuth2Mode
    /\ environment.oauth.serverUrl = Str("")
    /\ ~Truthy(environment.oauth.realm)
    /\ Truthy(environment.oauth.authorizeUrl)
    /\ Truthy(environment.oauth.tokenUrl)
    /\ Truthy(environment.oauth.logoutUrl)
    /\ ConfigReturned
    /\ authConfig.issuer = Str("/realms/fineract")

InOIDCMode == environment.OIDC.oidcServerEnabled

\* C9 as claimed: no exception is raised by getActiveAuthMode or
\* getOAuthConfig, and every missing or empty configuration value (serverUrl,
\* realm, appId, oidcBaseUrl, oidcClientId, URL overrides, scope, redirectUri)
\* degrades to an empty-string field in the output.
C9_EmptyValuesGiveEmptyFields ==
    /\ ModeReturned => authMode \in AuthMode
    /\ ConfigReturned =>
          /\ "clientId" \in DOMAIN authConfig
          /\ InOIDCMode =>
                /\ ~Truthy(environment.OIDC.oidcBaseUrl) => authConfig.issuer = Str("")
                /\ ~Truthy(environment.OIDC.oidcClientId) => authConfig.clientId = Str("")
          /\ InOAuth2Mode =>
                /\ ~Truthy(environment.oauth.appId) => authConfig.clientId = Str("")
                /\ ~Truthy(environment.oauth.authorizeUrl) => authConfig.loginUrl = Str("")
                /\ ~Truthy(environment.oauth.tokenUrl) => authConfig.tokenEndpoint = Str("")
                /\ ~Truthy(environment.oauth.scope) => authConfig.scope = Str("")
                /\ ~Truthy(environment.oauth.redirectUri) => authConfig.redirectUri = Str("")
                /\ (~Truthy(environment.oauth.serverUrl) \/ ~Truthy(environment.oauth.realm))
                      => authConfig.issuer = Str("")

\* C9 as amended: no exception is raised by getActiveAuthMode or
\* getOAuthConfig for any environment configuration, and a missing or empty
\* value never makes the call fail.  oidcBaseUrl, oidcClientId and appId are
\* copied to issuer / clientId as they are (empty stays empty, unset stays
\* unset); loginUrl and tokenEndpoint are empty when the override and
\* serverUrl are both missing or empty; a missing or empty realm, scope,
\* redirectUri or oidcFrontUrl is replaced by its default ('fineract',
\* 'openid profile email', origin + '/#/callback', origin); and the OAuth2
\* issuer is never empty: it is '/realms/<realm>' for an empty serverUrl.
C9_NoFailureEmptyOrDefault ==
    /\ ModeReturned => authMode \in AuthMode
    /\ ConfigReturned =>
          /\ "clientId" \in DOMAIN authConfig
          /\ InOIDCMode =>
                /\ authConfig.issuer = environment.OIDC.oidcBaseUrl
                /\ authConfig.clientId = environment.OIDC.oidcClientId
                /\ ~Truthy(environment.OIDC.oidcFrontUrl) =>
                      authConfig.redirectUri = Str(origin \o "/callback")
          /\ InOAuth2Mode =>
                /\ authConfig.clientId = environment.oauth.appId
                /\ (~Truthy(environment.oauth.authorizeUrl)
                       /\ ~Truthy(environment.oauth.serverUrl))
                      => authConfig.loginUrl = Str("")
                /\ (~Truthy(environment.oauth.tokenUrl)
                       /\ ~Truthy(environment.oauth.serverUrl))
                      => authConfig.tokenEndpoint = Str("")
                /\ ~Truthy(environment.oauth.scope) =>
                      authConfig.scope = Str("openid profile email")
                /\ ~Truthy(environment.oauth.redirectUri) =>
                      authConfig.redirectUri = Str(origin \o "/#/callback")
                /\ authConfig.issuer # Str("")
                /\ environment.oauth.serverUrl = Str("") =>
                      authConfig.issuer = Str("/realms/" \o RealmOrDefault)
                /\ (Truthy(environment.oauth.serverUrl)
                       /\ ~Truthy(environment.oauth.realm))
                      => authConfig.issuer =
                            Str(environment.oauth.serverUrl.s \o "/realms/fineract")

\* OAuth2 mode with every optional value missing or empty still returns a
\* configuration, with defaults in scope and redirectUri
C9_Witness ==
    /\ InOAuth2Mode
    /\ ~Truthy(environment.oauth.serverUrl)
    /\ ~Truthy(environment.oauth.realm)
    /\ ~Truthy(environment.oauth.appId)
    /\ ~Truthy(environment.oauth.authorizeUrl)
    /\ ~Truthy(environment.oauth.tokenUrl)
    /\ ~Truthy(environment.oauth.logoutUrl)
    /\ ~Truthy(environment.oauth.scope)
    /\ ~Truthy(environment.oauth.redirectUri)
    /\ authMode = AuthModeOAuth2
    /\ ConfigReturned
    /\ authConfig.scope = Str("openid profile email")
    /\ authConfig.loginUrl = Str("")

\* C10: repeated calls of getOAuthConfig and getActiveAuthMode under the same
\* environment configuration and browser origin return equal values every
\* time, and no call modifies the environment configuration: the resolved
\* mode never changes within a session.
C10_RepeatedCallsAgree ==
    [][ /\ environment' = environment
        /\ origin' = origin
        /\ ConfigReturned => authConfig' = authConfig
        /\ ModeReturned => authMode' = authMode ]_vars

\* getOAuthConfig has been called twice
C10_Witness ==
    /\ configCalls = 2
    /\ "clientId" \in DOMAIN authConfig

\* C11: in both OIDC and OAuth2 modes requireHttps = production and
\* showDebugInformation = not production, so the two are never both true and
\* never both false.
C11_HttpsAndDebugMirrorProduction ==
    ((InOIDCMode \/ InOAuth2Mode) /\ ConfigReturned) =>
        /\ authConfig.requireHttps = environment.production
        /\ authConfig.showDebugInformation = ~environment.production
        /\ authConfig.requireHttps # authConfig.showDebugInformation

\* an OAuth2 configuration of a production build
C11_Witness ==
    /\ InOAuth2Mode
    /\ environment.production
    /\ ConfigReturned
    /\ authConfig.requireHttps
    /\ ~authConfig.showDebugInformation

\* C12: in OAuth2 mode redirectUri is oauth.redirectUri when set and
\* origin + '/#/callback' otherwise, scope is oauth.scope when set and
\* 'openid profile email' otherwise, and postLogoutRedirectUri is always
\* origin + '/#/login'.
C12_OAuth2RedirectAndScopeDefaults ==
    (InOAuth2Mode /\ ConfigReturned) =>
        /\ authConfig.redirectUri =
              IF Truthy(environment.oauth.redirectUri)
                THEN environment.oauth.redirectUri
                ELSE Str(origin \o "/#/callback")
        /\ authConfig.scope =
              IF Truthy(environment.oauth.scope)
                THEN environment.oauth.scope
                ELSE Str("openid profile email")
        /\ authConfig.postLogoutRedirectUri = Str(origin \o "/#/login")

\* redirectUri is overridden, scope is not; the post-logout URI ignores both
C12_Witness ==
    /\ InOAuth2Mode
    /\ Truthy(environment.oauth.redirectUri)
    /\ ~Truthy(environment.oauth.scope)
    /\ origin = "https://host"
    /\ ConfigReturned
    /\ authConfig.redirectUri = environment.oauth.redirectUri
    /\ authConfig.scope = Str("openid profile email")
    /\ authConfig.postLogoutRedirectUri = Str("https://host/#/login")

\* C13: every OAuth2-mode output has oidc = false, skipIssuerCheck = true and
\* strictDiscoveryDocumentValidation = false, every OIDC-mode output has
\* oidc = true, and in both modes responseType = 'code', useSilentRefresh,
\* sessionChecksEnabled and clearHashAfterLogin are false, independent of all
\* configuration values.
C13_FixedProtocolFlags ==
    ConfigReturned =>
        /\ InOAuth2Mode =>
              /\ authConfig.oidc = FALSE
              /\ authConfig.skipIssuerCheck = TRUE
              /\ authConfig.strictDiscoveryDocumentValidation = FALSE
        /\ InOIDCMode => authConfig.oidc = TRUE
        /\ (InOIDCMode \/ InOAuth2Mode) =>
              /\ authConfig.responseType = Str("code")
              /\ authConfig.useSilentRefresh = FALSE
              /\ authConfig.sessionChecksEnabled = FALSE
              /\ authConfig.clearHashAfterLogin = FALSE

\* an OIDC configuration of a production build with every OIDC value set
C13_Witness ==
    /\ InOIDCMode
    /\ environment.production
    /\ Truthy(environment.OIDC.oidcClientId)
    /\ Truthy(environment.OIDC.oidcBaseUrl)
    /\ ConfigReturned
    /\ authConfig.oidc = TRUE
    /\ authConfig.responseType = Str("code")

\* the record returned in Basic mode
BasicSentinel == [clientId |-> Str("")]

\* C19: getOAuthConfig returns a record equal to the sentinel {clientId: ''}
\* if and only if the active mode is Basic: every OIDC-mode and OAuth2-mode
\* output carries additional fields (issuer, redirectUri, responseType, ...)
\* even when the configured client id is empty.
C19_SentinelIffBasic ==
    ConfigReturned =>
        /\ (authConfig = BasicSentinel) <=> (~InOIDCMode /\ ~InOAuth2Mode)
        /\ (InOIDCMode \/ InOAuth2Mode) =>
              {"issuer", "redirectUri", "responseType"} \subseteq DOMAIN authConfig

\* an enabled mode whose client id is the empty string, like the sentinel's
C19_Witness ==
    /\ InOAuth2Mode
    /\ environment.oauth.appId = Str("")
    /\ ConfigReturned
    /\ authConfig.clientId = Str("")
    /\ authConfig # BasicSentinel

\* one fixed value of the oauth block of the environment
ReferenceOAuth ==
    [ enabled      |-> FALSE,
      serverUrl    |-> Str(""),
      realm        |-> Undefined,
      authorizeUrl |-> Undefined,
      tokenUrl     |-> Str(""),
      logoutUrl    |-> Undefined,
      redirectUri  |-> Undefined,
      scope        |-> Str(""),
      appId        |-> Str("") ]

\* C20: when OIDC.oidcServerEnabled is true the output of getOAuthConfig does
\* not depend on any oauth.* field.  Every output equals the output for the
\* configuration with the same OIDC fields, production flag and origin and
\* the reference oauth block; hence two configurations that differ only in
\* oauth.* produce equal outputs.
C20_OidcOutputIgnoresOAuthBlock ==
    (InOIDCMode /\ ConfigReturned) =>
        authConfig = getOAuthConfig([environment EXCEPT !.oauth = ReferenceOAuth], origin)

\* the oauth block differs from the reference block in every field
C20_Witness ==
    /\ InOIDCMode
    /\ \A f \in DOMAIN ReferenceOAuth : environment.oauth[f] # ReferenceOAuth[f]
    /\ ConfigReturned
    /\ authConfig.oidc = TRUE

\* C16: LoginComponent.displayTenantSelector returns false whenever
\* environment.oauth.enabled is true, whatever environment.displayTenantSelector
\* is; when oauth.enabled is false it returns false only if
\* environment.displayTenantSelector is the string 'false' and true otherwise,
\* including when OIDC is the active auth mode.
C16_TenantSelectorHiddenByOAuthOnly ==
    tenantSelectorShown # Undefined =>
        /\ environment.oauth.enabled => tenantSelectorShown = Bool(FALSE)
        /\ ~environment.oauth.enabled =>
              tenantSelectorShown = Bool(environment.displayTenantSelector # Str("false"))

\* OIDC is the active mode, and the selector is shown
C16_Witness ==
    /\ environment.OIDC.oidcServerEnabled
    /\ ~environment.oauth.enabled
    /\ environment.displayTenantSelector = Str("true")
    /\ tenantSelectorShown = Bool(TRUE)

C18_AlertFlagsExclusive ==
    /\ [](~(resetPassword /\ twoFactorAuthenticationRequired))
    /\ [][(lastEvent' = "alertEvent" /\ alertSubscribed) =>
            CASE lastAlert' = "Password Expired" ->
                    resetPassword' /\ ~twoFactorAuthenticationRequired'
              [] lastAlert' = "Two Factor Authentication Required" ->
                    ~resetPassword' /\ twoFactorAuthenticationRequired'
              [] lastAlert' = "Authentication Success" ->
                    /\ ~resetPassword'
                    /\ ~twoFactorAuthenticationRequired'
                    /\ routerUrl' = "/"
              [] OTHER ->
                    /\ resetPassword' = resetPassword
                    /\ twoFactorAuthenticationRequired' =
                          twoFactorAuthenticationRequired]_vars

\* the two-factor alert arrived while the component was subscribed
C18_Witness ==
    /\ alertSubscribed
    /\ lastEvent = "alertEvent"
    /\ lastAlert = "Two Factor Authentication Required"
    /\ twoFactorAuthenticationRequired
    /\ ~resetPassword

\* the file at the current position of files.forEach already begins with the
\* header the script prepends for its type
AtFileWithCanonicalHeader ==
    /\ scriptPc = "loop"
    /\ position <= Len(files)
    /\ fileSystem[files[position]].exists
    /\ ~shouldExclude(files[position])
    /\ getHeaderType(files[position]) # NoHeaderType
    /\ StartsWith(fileSystem[files[position]].content,
                  HEADERS[getHeaderType(files[position])])

\* C14: addHeaderToFile skips a file that already has the licence header: for
\* a supported, non-excluded file whose content begins with HEADERS.code or
\* HEADERS.html the call returns false (the file is counted as skipped, not
\* as modified) and no file content changes, so a second run on the same
\* file does not add the header again.
C14_CanonicalHeaderIsSkipped ==
    [][AtFileWithCanonicalHeader =>
          /\ fileSystem' = fileSystem
          /\ modifiedCount' = modifiedCount
          /\ skippedCount' = skippedCount + 1]_vars

\* what a run without --dry-run writes to: an existing, supported,
\* non-excluded, readable and writable file with text in it in which
\* hasHeader finds no header
ReceivesHeader(filePath) ==
    /\ fileSystem[filePath].exists
    /\ ~shouldExclude(filePath)
    /\ getHeaderType(filePath) # NoHeaderType
    /\ fileSystem[filePath].readable
    /\ fileSystem[filePath].writable
    /\ ~hasHeader(fileSystem[filePath].content, getHeaderType(filePath))
    /\ Len(Trim(fileSystem[filePath].content)) # 0

\* the positions of files that forEach has been through in the latest run
Processed == 1..(position - 1)

\* C15: in a run with --dry-run or -d no file is modified, whatever the file
\* arguments (every file's content is what it was before the run), and every
\* processed file that would receive a header is counted as modified in the
\* summary; each processed file is counted exactly once.
C15_DryRunModifiesNoFile ==
    dryRun =>
        /\ fileSystem = startFileSystem
        /\ modifiedCount >= Cardinality({i \in Processed : ReceivesHeader(files[i])})
        /\ modifiedCount + skippedCount = Cardinality(Processed)

\* a dry run has ended whose summary counts a file that would receive a header
C15_Witness ==
    /\ dryRun
    /\ scriptPc = "done"
    /\ \E i \in 1..Len(files) : ReceivesHeader(files[i])
    /\ modifiedCount > 0
    /\ skippedCount > 0

====
